---- MODULE Spec2Model ----
(***************************************************************************)
(* Plugin lifecycle and command-dispatch core of the Groq-V2 chat bot:     *)
(* RateLimiter (utils/rateLimiter.js), PluginManager                       *)
(* (core/PluginManager.js) and the listeners of SocketManager              *)
(* (core/SocketManager.js).  The JavaScript runtime is single threaded:    *)
(* every action below is one synchronous block, from one suspension point  *)
(* (an awaited I/O operation, a timer) to the next.                        *)
(***************************************************************************)
EXTENDS Integers, Sequences, FiniteSets, TLC

(***************************************************************************)
(* Program constants                                                       *)
(***************************************************************************)
MAX_REQUESTS == 10
WINDOW_MS == 60000
PLUGIN_TIMEOUT == 30000
MAX_CRASHES == 3
CRASH_WINDOW == 3600000

(***************************************************************************)
(* Bounds of the model                                                     *)
(***************************************************************************)
\* last clock value (ms) of the rate-limiter specification
MaxRateNow == 150005
\* number of checkLimit calls followed by the history of the rate limiter
MaxRateCalls == 13
\* number of inbound messages of the dispatcher specification
MaxMsgs == 3
\* clock steps of the dispatcher specification, each of PLUGIN_TIMEOUT ms
MaxTicks == 2
\* store updates of trackCrash that are in flight at the same time
MaxInFlight == 2
\* clock steps of the crash-tracking specification, each of half a crash
\* window or 1 ms more
MaxCrashTicks == 3
\* crashes counted for one command
MaxCrashCount == 4

VARIABLES
  now,          \* Date.now(), in ms
  cache,        \* RateLimiter.cache: key -> entry [v, t] or NoEntry
  rlWindow,     \* history: identity -> the rate window it is in
  rlLast,       \* history: the last checkLimit call [id, result, n]
  pluginFiles,  \* the .js files of PLUGINS_DIR, in readdir order
  plugins,      \* PluginManager.plugins: the Map, in insertion order
  store,        \* the 'plugins' collection: name -> record or NoRecord
  loader,       \* position of loadPlugins / reloadPlugins / reloadPlugin
  loader2,      \* position of a reload that was called while the one of
                \* loader was running
  found,        \* history: the last findPlugin call [token, result]
  commandQueue, \* PluginManager.commandQueue: the queued invocations (ids)
  isProcessing, \* PluginManager.isProcessing
  inv,          \* the inbound messages so far, each with its position in
                \* handleMessage / executeCommand and its history
  loops,        \* the invocations a processQueue body is awaiting
  enqLog,       \* history: the invocations in the order they were queued
  execLog,      \* history: the invocations in the order executeCommand
                \* was called for them
  writes,       \* store updates sent and not awaited (trackCrash)
  shutdown,     \* state.isShuttingDown: gracefulShutdown has been started
  crashLast,    \* history: the last trackCrash call, the descriptor before
                \* and after it; lost: since then a store update failed or
                \* an update of enablePlugin was applied
  sm            \* the SocketManager: its fields, the sockets it has made
                \* and the listeners attached to them

rateVars == <<now, cache, rlWindow, rlLast>>
regVars == <<pluginFiles, plugins, store, loader, loader2, found>>
dispVars == <<commandQueue, isProcessing, inv, loops, enqLog, execLog,
              writes, shutdown>>

(***************************************************************************)
(* RateLimiter                                                             *)
(***************************************************************************)
\* sender identities (remoteJid), as digit sequences
OwnerNumber == <<1, 2>>
JidOwner == <<1, 2>>
JidOther == <<3, 4>>
\* the jid of somebody else, which holds the owner number inside it
JidLong == <<3, 1, 2>>
Identities == {JidOwner, JidOther}

NoEntry == [v |-> 0, t |-> -1]

\* const key = `rate_${userId}`
RateKey(userId) == <<"rate_", userId>>
RateKeys == {RateKey(id) : id \in Identities}

\* new NodeCache({ stdTTL: WINDOW_MS / 1000 }): the time to live, in seconds
StdTTL == WINDOW_MS \div 1000

\* NodeCache.get: an entry whose expiry lies before the clock is deleted and
\* undefined is returned
CacheExpired(c, key, n) == c[key] # NoEntry /\ c[key].t < n
CacheAfterGet(c, key, n) ==
  IF CacheExpired(c, key, n) THEN [c EXCEPT ![key] = NoEntry] ELSE c
\* this.cache.get(key) || 0
CacheGetOrZero(c, key, n) ==
  IF c[key] = NoEntry \/ CacheExpired(c, key, n) THEN 0 ELSE c[key].v
CacheSetOff(c, key, value, n) == c
\* NodeCache.set(key, value): stores the value with a fresh time to live
CacheSet(c, key, value, n) ==
  [c EXCEPT ![key] = [v |-> value, t |-> n + StdTTL * 1000]]

\* if (current >= MAX_REQUESTS) return false
LimitReachedOff(current) == current > MAX_REQUESTS
LimitReached(current) == current >= MAX_REQUESTS

\* RateLimiter.checkLimit(userId): the result and the cache it leaves
CheckLimit(c, userId, n) ==
  LET key == RateKey(userId)
      current == CacheGetOrZero(c, key, n)
      c1 == CacheAfterGet(c, key, n)
  IN IF LimitReached(current)
     THEN [ok |-> FALSE, cache |-> c1]
     ELSE [ok |-> TRUE, cache |-> CacheSet(c1, key, current + 1, n)]

(***************************************************************************)
(* PluginManager: the registry and its loading                             *)
(***************************************************************************)
\* null, for a time and for a descriptor
Null == -1
NoPlugin == "<null>"

\* the artifacts PLUGINS_DIR may hold: what import() of each file yields
\* run tells whether the default export has a function run
Artifacts ==
  [f \in {"ping.js", "menu.js", "help.js", "list.js", "owner.js",
          "norun.js", "broken.js"} |->
    CASE f = "ping.js" ->
           [importOk |-> TRUE, hasDefault |-> TRUE, name |-> "ping",
            aliases |-> <<"p">>, ownerOnly |-> FALSE,
            run |-> TRUE]
      [] f = "menu.js" ->
           [importOk |-> TRUE, hasDefault |-> TRUE, name |-> "menu",
            aliases |-> <<"help", "commands">>, ownerOnly |-> FALSE,
            run |-> TRUE]
      [] f = "help.js" ->
           [importOk |-> TRUE, hasDefault |-> TRUE, name |-> "help",
            aliases |-> <<>>, ownerOnly |-> FALSE,
            run |-> TRUE]
      [] f = "list.js" ->
           [importOk |-> TRUE, hasDefault |-> TRUE, name |-> "menu",
            aliases |-> <<"help", "commands", "list">>, ownerOnly |-> FALSE,
            run |-> TRUE]
      [] f = "owner.js" ->
           [importOk |-> TRUE, hasDefault |-> TRUE, name |-> "owner",
            aliases |-> <<"admin", "sudo">>, ownerOnly |-> TRUE,
            run |-> TRUE]
      [] f = "norun.js" ->
           [importOk |-> TRUE, hasDefault |-> TRUE, name |-> "norun",
            aliases |-> <<>>, ownerOnly |-> FALSE,
            run |-> FALSE]
      [] OTHER ->
           [importOk |-> FALSE, hasDefault |-> FALSE, name |-> "",
            aliases |-> <<>>, ownerOnly |-> FALSE,
            run |-> FALSE]]
FileNames == DOMAIN Artifacts
PluginNames == {Artifacts[f].name : f \in FileNames} \ {""}
Range(s) == {s[i] : i \in 1..Len(s)}
\* command tokens looked up: a name that is also another plugin's alias, a
\* name, an alias, an alias two artifacts declare, and an unknown word
Tokens == {"help", "menu", "p", "commands", "nope"}

\* Map.prototype.set: an existing key keeps its position, a new one is last
MapSet(m, d) ==
  IF \E i \in 1..Len(m) : m[i].name = d.name
  THEN [i \in 1..Len(m) |-> IF m[i].name = d.name THEN d ELSE m[i]]
  ELSE Append(m, d)
\* Map.prototype.delete
MapDelete(m, name) == SelectSeq(m, LAMBDA d : d.name # name)
MapHas(m, name) == \E i \in 1..Len(m) : m[i].name = name
\* Map.prototype.get, for a key the map has
MapGet(m, name) == m[CHOOSE i \in 1..Len(m) : m[i].name = name]
MapKeys(m) == {m[i].name : i \in 1..Len(m)}

\* if (!plugin.default || !plugin.default.name) return
InvalidStructure(a) == ~a.hasDefault \/ a.name = ""

\* const pluginData = { ...plugin.default, filename, enabled: true, ... }
PluginData(filename) ==
  LET a == Artifacts[filename]
  IN [name |-> a.name, aliases |-> a.aliases, ownerOnly |-> a.ownerOnly,
      run |-> a.run, filename |-> filename, enabled |-> TRUE, crashes |-> 0,
      lastCrash |-> Null]

\* PluginManager.loadPlugin(filename): the registry it leaves
LoadPlugin(m, filename) ==
  LET a == Artifacts[filename]
  IN IF ~a.importOk THEN m
     ELSE IF InvalidStructure(a) THEN m
     ELSE MapSet(m, PluginData(filename))

\* PluginManager.findPlugin(name): the name of the descriptor found, or
\* NoPlugin
RECURSIVE FindFrom(_, _, _)
FindFrom(m, i, token) ==
  IF i > Len(m) THEN NoPlugin
  ELSE IF m[i].name = token \/ token \in Range(m[i].aliases) THEN m[i].name
  ELSE FindFrom(m, i + 1, token)
FindPlugin(m, token) == FindFrom(m, 1, token)

(***************************************************************************)
(* PluginManager: loadPlugins, syncPluginsToDatabase, reloads              *)
(***************************************************************************)
NoRecord ==
  [exists |-> FALSE, aliases |-> <<>>, filename |-> "", ownerOnly |-> FALSE,
   enabled |-> FALSE, crashes |-> 0, lastCrash |-> Null, usageCount |-> 0,
   orphaned |-> FALSE]

EmptyStore == [n \in PluginNames |-> NoRecord]

NoFound == [asked |-> FALSE, token |-> "", result |-> NoPlugin]

\* history of trackCrash: no descriptor, no call
NoDescriptor ==
  [name |-> "", aliases |-> <<>>, ownerOnly |-> FALSE, run |-> FALSE,
   filename |-> "", enabled |-> FALSE, crashes |-> 0, lastCrash |-> Null]
NoCrash ==
  [called |-> FALSE, at |-> 0, before |-> NoDescriptor,
   after |-> NoDescriptor, chain |-> 0, lost |-> FALSE]

\* the tokens findPlugin resolves in registry m
Resolvable(m) == {t \in Tokens : FindPlugin(m, t) # NoPlugin}

\* the loader at rest; last and snap are history: how the last sync ended
\* ("none": no sync since the last operation began) and what its find read;
\* had is history too: the tokens that resolved when reloadPlugins was
\* called; name is the pluginName reloadPlugin was called with; again tells
\* that the last sync was run on what the sync before it had left, counts
\* are the added, updated and unchanged of that run
LoaderIdle ==
  [pc |-> "idle", kind |-> "none", todo |-> <<>>, snap |-> EmptyStore,
   idx |-> 0, orphans |-> {}, last |-> "none", had |-> {}, name |-> "",
   again |-> FALSE, counts |-> <<0, 0, 0>>]
LoaderSynced(snap) == [LoaderIdle EXCEPT !.last = "ok", !.snap = snap]
LoaderFailedRaised == [LoaderIdle EXCEPT !.last = "failed", !.pc = "raised"]
LoaderFailed == [LoaderIdle EXCEPT !.last = "failed"]

\* const pluginDoc = { ... }, for a descriptor and its record of the snapshot
PluginDoc(d, existing) ==
  [exists |-> TRUE, aliases |-> d.aliases, filename |-> d.filename,
   ownerOnly |-> d.ownerOnly,
   enabled |-> IF existing.exists THEN existing.enabled ELSE TRUE,
   crashes |-> IF existing.exists THEN existing.crashes ELSE 0,
   lastCrash |-> IF existing.exists THEN existing.lastCrash ELSE Null,
   usageCount |-> 0, orphaned |-> FALSE]

HasChangesAlways(existing, doc) == TRUE
\* const hasChanges = ... : description, category and usage are the same in
\* every artifact here, the aliases differ
HasChanges(existing, doc) == existing.aliases # doc.aliases

\* pluginsCol.insertOne(pluginDoc)
InsertOne(st, name, doc) == [st EXCEPT ![name] = doc]
\* pluginsCol.updateOne({ name }, { $set: pluginDoc }): fields the document
\* does not name (usageCount, orphaned) are kept
UpdateSetDoc(st, name, doc) ==
  IF ~st[name].exists THEN st
  ELSE [st EXCEPT ![name] =
         [doc EXCEPT !.usageCount = st[name].usageCount,
                     !.orphaned = st[name].orphaned]]
\* pluginsCol.updateOne({ name }, { $set: { enabled: false, orphaned: true } })
UpdateOrphanOff(st, name) == st
UpdateOrphan(st, name) ==
  IF ~st[name].exists THEN st
  ELSE [st EXCEPT ![name].enabled = FALSE, ![name].orphaned = TRUE]

\* plugin.enabled = existing.enabled, on the i-th entry of the Map
PullEnabledOff(m, i, snap) == m
PullEnabled(m, i, snap) ==
  [m EXCEPT ![i].enabled = snap[m[i].name].enabled]

\* the loop over this.plugins, from entry i up to its next store operation:
\* entries whose record exists and has no changes are handled without one
RECURSIVE SyncAdvance(_, _, _)
SyncAdvance(m, snap, i) ==
  IF i > Len(m) THEN [plugins |-> m, idx |-> i, op |-> "end"]
  ELSE LET existing == snap[m[i].name]
       IN IF ~existing.exists
          THEN [plugins |-> m, idx |-> i, op |-> "insert"]
          ELSE IF HasChanges(existing, PluginDoc(m[i], existing))
          THEN [plugins |-> m, idx |-> i, op |-> "update"]
          ELSE SyncAdvance(PullEnabled(m, i, snap), snap, i + 1)

\* const orphanedPlugins = existingPlugins.filter(...)
OrphanedPlugins(m, snap) ==
  {n \in PluginNames : snap[n].exists /\ n \notin MapKeys(m)}

\* the loader after the loop over this.plugins has reached r
LoaderAfterAdvance(r, snap, lo) ==
  IF r.op = "end"
  THEN IF OrphanedPlugins(r.plugins, snap) = {}
       THEN LoaderSynced(snap)
       ELSE [LoaderIdle EXCEPT !.pc = "syncOrphans", !.kind = lo.kind,
               !.name = lo.name, !.snap = snap,
               !.orphans = OrphanedPlugins(r.plugins, snap)]
  ELSE [LoaderIdle EXCEPT !.pc = "syncEach", !.kind = lo.kind,
          !.name = lo.name, !.snap = snap, !.idx = r.idx]

\* loadPlugins(): readdir; the files are then loaded one by one
StartLoadPlugins ==
  /\ loader.pc = "boot"
  /\ loader' = [LoaderIdle EXCEPT !.pc = "loading", !.kind = "loadPlugins",
                  !.todo = pluginFiles]
  /\ found' = NoFound
  /\ UNCHANGED loader2
  /\ UNCHANGED <<pluginFiles, plugins, store>>
  /\ UNCHANGED <<rateVars, dispVars, crashLast, sm>>

\* reloadPlugins(): this.plugins.clear(), then loadPlugins(); the history
\* of the descriptors that are dropped ends
ReloadPlugins ==
  /\ loader.pc = "idle"
  /\ loader2.pc = "idle"
  /\ plugins' = <<>>
  /\ loader' = [LoaderIdle EXCEPT !.pc = "loading", !.kind = "reloadPlugins",
                  !.todo = pluginFiles, !.had = Resolvable(plugins)]
  /\ found' = NoFound
  /\ UNCHANGED loader2
  /\ UNCHANGED sm
  /\ crashLast' = NoCrash
  /\ UNCHANGED <<pluginFiles, store>>
  /\ UNCHANGED <<rateVars, dispVars>>

\* reloadPlugin(pluginName), for a name the registry has: delete, loadPlugin
ReloadPlugin(name) ==
  /\ loader.pc = "idle"
  /\ loader2.pc = "idle"
  /\ MapHas(plugins, name)
  /\ plugins' = MapDelete(plugins, name)
  /\ loader' = [LoaderIdle EXCEPT !.pc = "loading", !.kind = "reloadPlugin",
                  !.todo = <<MapGet(plugins, name).filename>>,
                  !.name = name]
  /\ found' = NoFound
  /\ UNCHANGED loader2
  /\ UNCHANGED sm
  /\ crashLast' = IF crashLast.after.name = name THEN NoCrash ELSE crashLast
  /\ UNCHANGED <<pluginFiles, store>>
  /\ UNCHANGED <<rateVars, dispVars>>

\* await this.loadPlugin(file), for the next file; the import of a file
\* that is no longer in PLUGINS_DIR throws, which loadPlugin logs
LoadStep ==
  /\ loader.pc = "loading"
  /\ loader.todo # <<>>
  /\ plugins' = IF Head(loader.todo) \in Range(pluginFiles)
                THEN LoadPlugin(plugins, Head(loader.todo))
                ELSE plugins
  /\ loader' = [loader EXCEPT !.todo = Tail(loader.todo)]
  /\ found' = NoFound
  /\ UNCHANGED loader2
  /\ UNCHANGED <<pluginFiles, store>>
  /\ UNCHANGED <<rateVars, dispVars, crashLast, sm>>

\* syncPluginsToDatabase() starts: pluginsCol.find({}) is sent
SyncStart ==
  /\ loader.pc = "loading"
  /\ loader.todo = <<>>
  /\ loader' = [loader EXCEPT !.pc = "syncFind"]
  /\ found' = NoFound
  /\ UNCHANGED loader2
  /\ UNCHANGED <<pluginFiles, plugins, store>>
  /\ UNCHANGED <<rateVars, dispVars, crashLast, sm>>

\* find({}).toArray() answers: existingMap; or it throws and sync gives up
SyncFind(ok) ==
  /\ loader.pc = "syncFind"
  /\ loader2.pc # "loading"
  /\ IF ok
     THEN LET r == SyncAdvance(plugins, store, 1)
          IN /\ plugins' = r.plugins
             /\ loader' = LoaderAfterAdvance(r, store, loader)
     ELSE /\ loader' = LoaderFailed
          /\ UNCHANGED plugins
  /\ found' = NoFound
  /\ UNCHANGED loader2
  /\ UNCHANGED <<pluginFiles, store>>
  /\ UNCHANGED <<rateVars, dispVars, crashLast, sm>>

\* the insertOne / updateOne of entry idx answers, the loop goes on
SyncEach(ok) ==
  /\ loader.pc = "syncEach"
  /\ loader2.pc # "loading"
  /\ LET i == loader.idx
         d == plugins[i]
         existing == loader.snap[d.name]
         doc == PluginDoc(d, existing)
     IN IF ok
        THEN LET m1 == IF existing.exists
                       THEN PullEnabled(plugins, i, loader.snap)
                       ELSE plugins
                 r == SyncAdvance(m1, loader.snap, i + 1)
             IN /\ store' = IF existing.exists
                            THEN UpdateSetDoc(store, d.name, doc)
                            ELSE InsertOne(store, d.name, doc)
                /\ plugins' = r.plugins
                /\ loader' = LoaderAfterAdvance(r, loader.snap, loader)
        ELSE /\ loader' = LoaderFailed
             /\ UNCHANGED <<plugins, store>>
  /\ found' = NoFound
  /\ UNCHANGED loader2
  /\ UNCHANGED pluginFiles
  /\ UNCHANGED <<rateVars, dispVars, crashLast, sm>>

\* the updateOne of one orphaned record answers
SyncOrphan(ok) ==
  /\ loader.pc = "syncOrphans"
  /\ \E o \in loader.orphans :
       IF ok
       THEN /\ store' = UpdateOrphan(store, o)
            /\ loader' = IF loader.orphans = {o}
                         THEN LoaderSynced(loader.snap)
                         ELSE [loader EXCEPT !.orphans = loader.orphans \ {o}]
       ELSE /\ loader' = LoaderFailed
            /\ UNCHANGED store
  /\ found' = NoFound
  /\ UNCHANGED loader2
  /\ UNCHANGED <<pluginFiles, plugins>>
  /\ UNCHANGED <<rateVars, dispVars, crashLast, sm>>

\* syncPluginsToDatabase() from the answer of its find to its end, every
\* store operation answered as it is sent: the registry, the collection
\* and the counters added, updated, unchanged it ends with
RECURSIVE SyncRun(_, _, _, _, _)
SyncRun(m, st, snap, i, c) ==
  IF i > Len(m)
  THEN [plugins |-> m,
        store |-> [n \in PluginNames |->
                     IF n \in OrphanedPlugins(m, snap)
                     THEN UpdateOrphan(st, n)[n] ELSE st[n]],
        counts |-> c]
  ELSE LET name == m[i].name
           existing == snap[name]
           doc == PluginDoc(m[i], existing)
       IN IF ~existing.exists
          THEN SyncRun(m, InsertOne(st, name, doc), snap, i + 1,
                       [c EXCEPT ![1] = @ + 1])
          ELSE IF HasChanges(existing, doc)
          THEN SyncRun(PullEnabled(m, i, snap),
                       UpdateSetDoc(st, name, doc), snap, i + 1,
                       [c EXCEPT ![2] = @ + 1])
          ELSE SyncRun(PullEnabled(m, i, snap), st, snap, i + 1,
                       [c EXCEPT ![3] = @ + 1])

\* syncPluginsToDatabase() is called once more after a sync that ended
\* well, with nothing else running
SyncAgain ==
  /\ loader.pc = "idle"
  /\ loader2.pc = "idle"
  /\ loader.last = "ok"
  /\ LET r == SyncRun(plugins, store, store, 1, <<0, 0, 0>>)
     IN /\ plugins' = r.plugins
        /\ store' = r.store
        /\ loader' = [loader EXCEPT !.again = TRUE, !.counts = r.counts,
                                    !.snap = store]
  /\ found' = NoFound
  /\ UNCHANGED loader2
  /\ UNCHANGED pluginFiles
  /\ UNCHANGED <<rateVars, dispVars, crashLast, sm>>

\* the process is started again on another content of PLUGINS_DIR: the
\* registry is built anew, the store is what the last run left
Restart(files) ==
  /\ loader.pc = "idle"
  /\ pluginFiles' = files
  /\ plugins' = <<>>
  /\ loader' = [LoaderIdle EXCEPT !.pc = "boot"]
  /\ found' = NoFound
  /\ UNCHANGED loader2
  /\ UNCHANGED store
  /\ UNCHANGED <<rateVars, dispVars, crashLast, sm>>

\* reloadPlugins() is called while another reload is awaiting readdir, an
\* import or the find of its sync: nothing in the code refuses or defers
\* the call.  Of the runs with two reloads these are modelled: the second
\* starts before the first iterates over this.plugins, and an iteration
\* goes on only while the other reload is not replacing entries of the Map
ReloadPluginsDuring ==
  /\ loader.pc \in {"loading", "syncFind"}
  /\ loader2.pc = "idle"
  /\ plugins' = <<>>
  /\ loader2' = [LoaderIdle EXCEPT !.pc = "loading",
                   !.kind = "reloadPlugins", !.todo = pluginFiles,
                   !.had = Resolvable(plugins)]
  /\ found' = NoFound
  /\ UNCHANGED sm
  /\ crashLast' = NoCrash
  /\ UNCHANGED <<pluginFiles, store, loader>>
  /\ UNCHANGED <<rateVars, dispVars>>

\* reloadPlugin(pluginName) is called while another reload is running
ReloadPluginDuring(name) ==
  /\ loader.pc \in {"loading", "syncFind"}
  /\ loader2.pc = "idle"
  /\ MapHas(plugins, name)
  /\ plugins' = MapDelete(plugins, name)
  /\ loader2' = [LoaderIdle EXCEPT !.pc = "loading", !.kind = "reloadPlugin",
                   !.todo = <<MapGet(plugins, name).filename>>,
                   !.name = name]
  /\ found' = NoFound
  /\ UNCHANGED sm
  /\ crashLast' = IF crashLast.after.name = name THEN NoCrash ELSE crashLast
  /\ UNCHANGED <<pluginFiles, store, loader>>
  /\ UNCHANGED <<rateVars, dispVars>>

\* the steps of the second reload: the same code as LoadStep .. SyncOrphan
LoadStepDuring ==
  /\ loader2.pc = "loading"
  /\ loader2.todo # <<>>
  /\ plugins' = IF Head(loader2.todo) \in Range(pluginFiles)
                THEN LoadPlugin(plugins, Head(loader2.todo))
                ELSE plugins
  /\ loader2' = [loader2 EXCEPT !.todo = Tail(loader2.todo)]
  /\ found' = NoFound
  /\ UNCHANGED <<pluginFiles, store, loader>>
  /\ UNCHANGED <<rateVars, dispVars, crashLast, sm>>

SyncStartDuring ==
  /\ loader2.pc = "loading"
  /\ loader2.todo = <<>>
  /\ loader2' = [loader2 EXCEPT !.pc = "syncFind"]
  /\ found' = NoFound
  /\ UNCHANGED <<pluginFiles, plugins, store, loader>>
  /\ UNCHANGED <<rateVars, dispVars, crashLast, sm>>

SyncFindDuring(ok) ==
  /\ loader2.pc = "syncFind"
  /\ loader.pc # "loading"
  /\ IF ok
     THEN LET r == SyncAdvance(plugins, store, 1)
          IN /\ plugins' = r.plugins
             /\ loader2' = LoaderAfterAdvance(r, store, loader2)
     ELSE /\ loader2' = LoaderFailed
          /\ UNCHANGED plugins
  /\ found' = NoFound
  /\ UNCHANGED <<pluginFiles, store, loader>>
  /\ UNCHANGED <<rateVars, dispVars, crashLast, sm>>

SyncEachDuring(ok) ==
  /\ loader2.pc = "syncEach"
  /\ loader.pc # "loading"
  /\ LET i == loader2.idx
         d == plugins[i]
         existing == loader2.snap[d.name]
         doc == PluginDoc(d, existing)
     IN IF ok
        THEN LET m1 == IF existing.exists
                       THEN PullEnabled(plugins, i, loader2.snap)
                       ELSE plugins
                 r == SyncAdvance(m1, loader2.snap, i + 1)
             IN /\ store' = IF existing.exists
                            THEN UpdateSetDoc(store, d.name, doc)
                            ELSE InsertOne(store, d.name, doc)
                /\ plugins' = r.plugins
                /\ loader2' = LoaderAfterAdvance(r, loader2.snap, loader2)
        ELSE /\ loader2' = LoaderFailed
             /\ UNCHANGED <<plugins, store>>
  /\ found' = NoFound
  /\ UNCHANGED <<pluginFiles, loader>>
  /\ UNCHANGED <<rateVars, dispVars, crashLast, sm>>

SyncOrphanDuring(ok) ==
  /\ loader2.pc = "syncOrphans"
  /\ \E o \in loader2.orphans :
       IF ok
       THEN /\ store' = UpdateOrphan(store, o)
            /\ loader2' = IF loader2.orphans = {o}
                          THEN LoaderSynced(loader2.snap)
                          ELSE [loader2 EXCEPT
                                  !.orphans = loader2.orphans \ {o}]
       ELSE /\ loader2' = LoaderFailed
            /\ UNCHANGED store
  /\ found' = NoFound
  /\ UNCHANGED <<pluginFiles, plugins, loader>>
  /\ UNCHANGED <<rateVars, dispVars, crashLast, sm>>

\* a call of findPlugin(token), as executeCommand makes it
Resolve(token) ==
  /\ found' = [asked |-> TRUE, token |-> token,
               result |-> FindPlugin(plugins, token)]
  /\ UNCHANGED <<pluginFiles, plugins, store, loader, loader2>>
  /\ UNCHANGED <<rateVars, dispVars, crashLast, sm>>

(***************************************************************************)
(* PluginManager: crash tracking                                           *)
(***************************************************************************)
\* if (plugin.lastCrash && (now - plugin.lastCrash > CRASH_WINDOW))
CrashWindowOverOff(d, n) ==
  d.lastCrash # Null /\ d.lastCrash # 0 /\ n - d.lastCrash >= 0
CrashWindowOver(d, n) ==
  d.lastCrash # Null /\ d.lastCrash # 0 /\ n - d.lastCrash > CRASH_WINDOW

\* if (plugin.crashes >= MAX_CRASHES)
CrashLimitReachedOff(crashes) == crashes > MAX_CRASHES
CrashLimitReached(crashes) == crashes >= MAX_CRASHES

\* the descriptor after trackCrash has counted one crash at time n
CrashedDescriptor(d, n) ==
  LET c == (IF CrashWindowOver(d, n) THEN 0 ELSE d.crashes) + 1
  IN [d EXCEPT !.crashes = c, !.lastCrash = n,
               !.enabled = IF CrashLimitReached(c) THEN FALSE ELSE @]

\* the updateOne calls trackCrash sends without awaiting them
CrashWrites(d, n, by) ==
  LET d1 == CrashedDescriptor(d, n)
  IN {[k |-> "crashes", name |-> d.name, crashes |-> d1.crashes,
       lastCrash |-> n, by |-> by]}
     \cup (IF CrashLimitReached(d1.crashes)
           THEN {[k |-> "disable", name |-> d.name, crashes |-> 0,
                  lastCrash |-> Null, by |-> by]}
           ELSE {})

\* PluginManager.trackCrash(pluginName) at time n: the registry it leaves
\* and the store updates it sends
TrackCrash(m, name, n, by) ==
  IF ~MapHas(m, name) THEN [plugins |-> m, writes |-> {}]
  ELSE [plugins |-> MapSet(m, CrashedDescriptor(MapGet(m, name), n)),
        writes |-> CrashWrites(MapGet(m, name), n, by)]

\* the effect on the store of an updateOne of trackCrash, enablePlugin or
\* disablePlugin
ApplyWrite(st, w) ==
  IF ~st[w.name].exists THEN st
  ELSE IF w.k = "crashes"
  THEN [st EXCEPT ![w.name].crashes = w.crashes,
                  ![w.name].lastCrash = w.lastCrash]
  ELSE IF w.k = "enable"
  THEN [st EXCEPT ![w.name].enabled = TRUE, ![w.name].crashes = 0]
  ELSE [st EXCEPT ![w.name].enabled = FALSE]

ApplyStatsOff(st, name) == st
\* updateOne({ name }, { $inc: { usageCount: 1 }, $set: { lastUsed } })
ApplyStats(st, name) ==
  IF name \notin DOMAIN st \/ ~st[name].exists THEN st
  ELSE [st EXCEPT ![name].usageCount = @ + 1]

(***************************************************************************)
(* PluginManager: handleMessage, processQueue, executeCommand              *)
(***************************************************************************)
\* this.prefix = process.env.PREFIX || '.'
Prefix == <<".">>

\* the texts of the inbound messages, as sequences of lexemes: the prefix
\* character, a blank, or a word
TextPing == <<".", "ping">>
TextAlias == <<".", " ", "p", " ", "x">>
TextOwner == <<".", "owner">>
TextNope == <<".", "nope">>
TextPlain == <<"hello", " ", "there">>
TextOwnerDisable ==
  <<".", "owner", " ", "plugins", " ", "disable", " ", "ping">>
TextOwnerEnable ==
  <<".", "owner", " ", "plugins", " ", "enable", " ", "ping">>
TextOwnerEnableMenu ==
  <<".", "owner", " ", "plugins", " ", "enable", " ", "menu">>

Message(hasMessage, fromMe, conversation, caption, jid) ==
  [hasMessage |-> hasMessage, fromMe |-> fromMe,
   conversation |-> conversation, extendedText |-> <<>>,
   imageCaption |-> caption, videoCaption |-> <<>>, remoteJid |-> jid]

\* PluginManager.extractMessageText(msg)
ExtractMessageText(msg) ==
  IF ~msg.hasMessage THEN <<>>
  ELSE IF msg.conversation # <<>> THEN msg.conversation
  ELSE IF msg.extendedText # <<>> THEN msg.extendedText
  ELSE IF msg.imageCaption # <<>> THEN msg.imageCaption
  ELSE msg.videoCaption

\* String.prototype.startsWith, slice, trim, split(/\s+/)
StartsWith(text, pre) ==
  Len(text) >= Len(pre) /\ SubSeq(text, 1, Len(pre)) = pre
Slice(text, n) == SubSeq(text, n + 1, Len(text))
RECURSIVE TrimStart(_)
TrimStart(text) ==
  IF text # <<>> /\ Head(text) = " " THEN TrimStart(Tail(text)) ELSE text
RECURSIVE TrimEnd(_)
TrimEnd(text) ==
  IF text # <<>> /\ text[Len(text)] = " "
  THEN TrimEnd(SubSeq(text, 1, Len(text) - 1)) ELSE text
Trim(text) == TrimEnd(TrimStart(text))
SplitBlanks(text) ==
  IF text = <<>> THEN <<"">> ELSE SelectSeq(text, LAMBDA l : l # " ")

\* const [commandName, ...args] = text.slice(prefix.length).trim().split(/\s+/)
CommandWords(text) == SplitBlanks(Trim(Slice(text, Len(Prefix))))
CommandName(text) == Head(CommandWords(text))
CommandArgs(text) == Tail(CommandWords(text))

\* String.prototype.includes on identities
Includes(jid, part) ==
  \E i \in 0..(Len(jid) - Len(part)) : SubSeq(jid, i + 1, i + Len(part)) = part
\* PluginManager.isOwner(jid)
IsOwner(jid) == Includes(jid, OwnerNumber)

DispSteps == {PLUGIN_TIMEOUT}
DispClock == {1 + a * PLUGIN_TIMEOUT : a \in 0..MaxTicks}

\* an inbound message that handleMessage has not looked at yet.  Fields of
\* the code: sender, cmd (commandName).  Position: st; handler (the promise
\* of plugin.run); plugin (the descriptor found); startedAt.  History: exec
\* and run count the calls of executeCommand and of plugin.run; tooFast,
\* disabledN, ownerN and failN count the notices sent; err is the text of the
\* failure notice; crash counts the trackCrash calls; stats counts the
\* updatePluginStats calls; rate is the answer of checkLimit; outcome tells
\* how the race ended; thrown is the error executeCommand rejected with;
\* seen is the enabled flag of the descriptor when findPlugin returned it;
\* args are the words after the command name; admin tells whether the
\* handler of the owner command has written to the plugins collection;
\* statsWrite tells how the updateOne of updatePluginStats ended; replies
\* counts the messages the handler had sent to the sender when it resolved;
\* payload, fromMe and text are the message as it came in
NewInvocation(msg) ==
  [sender |-> msg.remoteJid, cmd |-> "", st |-> "dropped", plugin |-> "",
   handler |-> "none", startedAt |-> 0, exec |-> 0, run |-> 0,
   tooFast |-> 0, disabledN |-> 0, ownerN |-> 0, failN |-> 0, err |-> "",
   crash |-> 0, stats |-> 0, rate |-> "none", outcome |-> "none",
   thrown |-> "", seen |-> "none", args |-> <<>>, admin |-> "none",
   statsWrite |-> "none", replies |-> 0,
   payload |-> msg.hasMessage, fromMe |-> msg.fromMe,
   text |-> ExtractMessageText(msg)]

\* the positions of an invocation inside executeCommand
Executing == {"disabledNotice", "ownerNotice", "running", "stats",
              "failNotice"}

\* if (!plugin.enabled)
PluginDisabledNever(plugin) == FALSE
PluginDisabled(plugin) == ~plugin.enabled

\* executeCommand, from its call up to its first await or early return
ExecuteCommandStart(m, v, n) ==
  LET name == FindPlugin(m, v.cmd)
      v0 == [v EXCEPT !.exec = @ + 1]
  IN IF name = NoPlugin THEN [v0 EXCEPT !.st = "unknown"]
     ELSE LET plugin == MapGet(m, name)
              v1 == [v0 EXCEPT !.seen = IF plugin.enabled THEN "enabled"
                                        ELSE "disabled"]
          IN IF PluginDisabled(plugin)
             THEN [v1 EXCEPT !.st = "disabledNotice", !.plugin = name,
                             !.disabledN = @ + 1]
             ELSE IF plugin.ownerOnly /\ ~IsOwner(v.sender)
             THEN [v1 EXCEPT !.st = "ownerNotice", !.plugin = name,
                             !.ownerN = @ + 1]
             ELSE [v1 EXCEPT !.st = "running", !.plugin = name,
                             !.handler = "pending", !.run = @ + 1,
                             !.startedAt = n]

\* this.commandQueue.shift(): the item taken and the queue left
DequeueLast(q) == [item |-> q[Len(q)], rest |-> SubSeq(q, 1, Len(q) - 1)]
Dequeue(q) == [item |-> Head(q), rest |-> Tail(q)]

\* the while loop of processQueue, from its test up to the next await that
\* suspends it: an unknown command returns at once and the loop goes on.
\* awaiting = 0 when the loop has ended
RECURSIVE DrainLoop(_, _, _)
DrainLoop(ds, m, n) ==
  IF ds.queue = <<>>
  THEN [ds EXCEPT !.isProcessing = FALSE, !.awaiting = 0]
  ELSE LET t == Dequeue(ds.queue)
           v == ExecuteCommandStart(m, ds.inv[t.item], n)
           ds1 == [ds EXCEPT !.queue = t.rest,
                             !.inv[t.item] = v,
                             !.execLog = Append(@, t.item)]
       IN IF v.st = "unknown" THEN DrainLoop(ds1, m, n)
          ELSE [ds1 EXCEPT !.awaiting = t.item]

\* if (this.isProcessing || this.commandQueue.length === 0) return
CanStartDrainAlways(processing, q) == q # <<>>
CanStartDrain(processing, q) == ~processing /\ q # <<>>

\* processQueue(), from its call up to its first suspension
ProcessQueue(ds, m, n) ==
  IF CanStartDrain(ds.isProcessing, ds.queue)
  THEN DrainLoop([ds EXCEPT !.isProcessing = TRUE], m, n)
  ELSE [ds EXCEPT !.awaiting = 0]

\* the dispatcher state the operators above work on
Dispatcher ==
  [queue |-> commandQueue, isProcessing |-> isProcessing, inv |-> inv,
   execLog |-> execLog, awaiting |-> 0]

\* the dispatcher variables after such a block; loop i (0: a new loop) is
\* the processQueue body that ran it
SetDispatcher(ds, i) ==
  /\ commandQueue' = ds.queue
  /\ isProcessing' = ds.isProcessing
  /\ inv' = ds.inv
  /\ execLog' = ds.execLog
  /\ loops' = (loops \ {i}) \cup (IF ds.awaiting = 0 THEN {} ELSE {ds.awaiting})

\* if (!this.rateLimiter.checkLimit(sender)) { ...; return; }
RateRejectedNever(ok) == FALSE
RateRejected(ok) == ~ok

\* the catch block of executeCommand, on the invocation: trackCrash is
\* called and the failure notice with error.message is sent
CatchFailureNoTrack(v, text) ==
  [v EXCEPT !.st = "failNotice", !.failN = @ + 1, !.err = text]
CatchFailure(v, text) ==
  [v EXCEPT !.st = "failNotice", !.crash = @ + 1, !.failN = @ + 1,
            !.err = text]

\* if (!msg.message || msg.key.fromMe) return
IgnoredNever(msg) == FALSE
Ignored(msg) == ~msg.hasMessage \/ msg.fromMe

\* if (!text || !text.startsWith(this.prefix)) return
PrefixMissingNever(text) == FALSE
PrefixMissing(text) == text = <<>> \/ ~StartsWith(text, Prefix)

\* handleMessage(msg, sock), up to its first suspension; when no drain loop
\* is running this includes the start of processQueue and executeCommand
HandleMessage(msg) ==
  /\ Len(inv) < MaxMsgs
  /\ LET id == Len(inv) + 1
         v0 == NewInvocation(msg)
         text == ExtractMessageText(msg)
     IN IF Ignored(msg)
        THEN /\ inv' = Append(inv, v0)
             /\ UNCHANGED <<cache, commandQueue, isProcessing, loops,
                            enqLog, execLog>>
        ELSE IF PrefixMissing(text)
        THEN /\ inv' = Append(inv, v0)
             /\ UNCHANGED <<cache, commandQueue, isProcessing, loops,
                            enqLog, execLog>>
        ELSE LET r == CheckLimit(cache, msg.remoteJid, now)
                 v1 == [v0 EXCEPT !.cmd = CommandName(text),
                                  !.args = CommandArgs(text),
                                  !.rate = IF r.ok THEN "ok" ELSE "limited"]
             IN /\ cache' = r.cache
                /\ IF RateRejected(r.ok)
                   THEN /\ inv' = Append(inv, [v1 EXCEPT !.st = "limited",
                                                         !.tooFast = @ + 1])
                        /\ UNCHANGED <<commandQueue, isProcessing, loops,
                                       enqLog, execLog>>
                   ELSE LET ds0 == [Dispatcher EXCEPT
                                      !.inv = Append(inv,
                                                [v1 EXCEPT !.st = "queued"]),
                                      !.queue = Append(commandQueue, id)]
                        IN /\ SetDispatcher(ProcessQueue(ds0, plugins, now), 0)
                           /\ enqLog' = Append(enqLog, id)
  /\ UNCHANGED <<now, rlWindow, rlLast, regVars, writes, shutdown, crashLast,
                 sm>>

\* the sendMessage of the "too fast" notice settles; a rejection goes to the
\* try/catch of the message listener
TooFastSettles(i, ok) ==
  /\ i \in 1..Len(inv)
  /\ inv[i].st = "limited"
  /\ inv' = [inv EXCEPT ![i].st = "limitedDone"]
  /\ UNCHANGED <<rateVars, regVars, commandQueue, isProcessing, loops,
                 enqLog, execLog, writes, shutdown, crashLast, sm>>

\* the run of plugins/owner.js: isOwner(sender), args[0] = 'plugins', and
\* handlePlugins(args[1], args[2]) with 'enable' or 'disable' and a name
AdminToggle(v) ==
  /\ v.plugin = "owner"
  /\ IsOwner(v.sender)
  /\ Len(v.args) >= 3
  /\ v.args[1] = "plugins"
  /\ v.args[2] \in {"enable", "disable"}
\* the updateOne of handlePlugins has not been answered yet
AdminPending(v) == AdminToggle(v) /\ v.admin = "none"

\* pluginsCol.updateOne({ name }, { $set: { enabled } }, { upsert: true })
UpsertEnabled(st, name, value) ==
  IF name \notin DOMAIN st THEN st
  ELSE IF st[name].exists THEN [st EXCEPT ![name].enabled = value]
  ELSE [st EXCEPT ![name] = [NoRecord EXCEPT !.exists = TRUE,
                                               !.enabled = value]]

\* handlePlugins: its updateOne is applied; the confirmation is sent next
OwnerPluginsApplied(i) ==
  /\ i \in 1..Len(inv)
  /\ inv[i].st = "running"
  /\ AdminPending(inv[i])
  /\ store' = UpsertEnabled(store, inv[i].args[3],
                            inv[i].args[2] = "enable")
  /\ inv' = [inv EXCEPT ![i].admin = "applied"]
  /\ UNCHANGED <<rateVars, pluginFiles, plugins, loader, loader2, found, commandQueue,
                 isProcessing, loops, enqLog, execLog, writes, shutdown,
                 crashLast, sm>>

\* the sendMessage calls of a handler that runs to its end: ping.run sends
\* 'Pinging...' and then 'Pong!'; the owner command sends one answer
RunReplies(name) == IF name = "ping" THEN 2 ELSE 1

\* plugin.run(...) resolves before the timeout: updatePluginStats sends its
\* updateOne
HandlerResolves(i) ==
  /\ i \in 1..Len(inv)
  /\ inv[i].st = "running"
  /\ ~AdminPending(inv[i])
  /\ inv' = [inv EXCEPT ![i].handler = "resolved", ![i].st = "stats",
                        ![i].stats = @ + 1, ![i].outcome = "resolved",
                        ![i].replies = RunReplies(inv[i].plugin)]
  /\ UNCHANGED <<rateVars, regVars, commandQueue, isProcessing, loops,
                 enqLog, execLog, writes, shutdown, crashLast, sm>>

\* plugin.run(...) rejects before the timeout: the catch block
HandlerRejects(i) ==
  /\ i \in 1..Len(inv)
  /\ inv[i].st = "running"
  /\ Cardinality(writes) + 2 <= MaxInFlight
  /\ LET tc == TrackCrash(plugins, inv[i].plugin, now, i)
     IN /\ plugins' = tc.plugins
        /\ writes' = writes \cup tc.writes
  /\ inv' = [inv EXCEPT
               ![i] = CatchFailure([@ EXCEPT !.handler = "rejected",
                                             !.outcome = "threw"],
                                   "handler error")]
  /\ UNCHANGED <<rateVars, pluginFiles, store, loader, loader2, found, commandQueue,
                 isProcessing, loops, enqLog, execLog, shutdown, crashLast, sm>>

\* the timer of the race fires first: the catch block; the handler is
\* still running
TimeoutFires(i) ==
  /\ i \in 1..Len(inv)
  /\ inv[i].st = "running"
  /\ now >= inv[i].startedAt + PLUGIN_TIMEOUT
  /\ Cardinality(writes) + 2 <= MaxInFlight
  /\ LET tc == TrackCrash(plugins, inv[i].plugin, now, i)
     IN /\ plugins' = tc.plugins
        /\ writes' = writes \cup tc.writes
  /\ inv' = [inv EXCEPT
               ![i] = CatchFailure([@ EXCEPT !.outcome = "timedOut"],
                                   "Plugin timeout")]
  /\ UNCHANGED <<rateVars, pluginFiles, store, loader, loader2, found, commandQueue,
                 isProcessing, loops, enqLog, execLog, shutdown, crashLast, sm>>

\* a handler whose invocation has timed out settles: the race is over,
\* nobody looks at the result
LateSettle(i, how) ==
  /\ i \in 1..Len(inv)
  /\ inv[i].handler = "pending"
  /\ inv[i].st # "running"
  /\ inv' = [inv EXCEPT ![i].handler = how,
                        ![i].replies = IF how = "resolved"
                                       THEN RunReplies(inv[i].plugin) ELSE @]
  /\ UNCHANGED <<rateVars, regVars, commandQueue, isProcessing, loops,
                 enqLog, execLog, writes, shutdown, crashLast, sm>>

StatsAfterSurfaces(v, ok) ==
  IF ok THEN [v EXCEPT !.st = "done", !.statsWrite = "ok"]
  ELSE CatchFailure([v EXCEPT !.statsWrite = "failed"], "stats failed")
\* updatePluginStats returns: its catch logs a failed updateOne and
\* swallows it
StatsAfter(v, ok) ==
  [v EXCEPT !.st = "done", !.statsWrite = IF ok THEN "ok" ELSE "failed"]

\* the updateOne of updatePluginStats settles (a failure is logged):
\* executeCommand returns and the loop of processQueue goes on
StatsSettles(i, ok) ==
  /\ i \in loops
  /\ inv[i].st = "stats"
  /\ store' = IF ok THEN ApplyStats(store, inv[i].plugin) ELSE store
  /\ SetDispatcher(
       DrainLoop([Dispatcher EXCEPT !.inv[i] = StatsAfter(inv[i], ok)],
                 plugins, now), i)
  /\ UNCHANGED <<rateVars, pluginFiles, plugins, loader, loader2, found, enqLog,
                 writes, shutdown, crashLast, sm>>

\* the sendMessage of a notice of executeCommand resolves: executeCommand
\* returns and the loop of processQueue goes on
SendResolves(i) ==
  /\ i \in loops
  /\ inv[i].st \in {"disabledNotice", "ownerNotice", "failNotice"}
  /\ SetDispatcher(
       DrainLoop([Dispatcher EXCEPT !.inv[i].st = "done"], plugins, now), i)
  /\ UNCHANGED <<rateVars, regVars, enqLog, writes, shutdown, crashLast, sm>>

\* the sendMessage of a notice of executeCommand rejects: nothing catches
\* it, executeCommand and processQueue reject, isProcessing stays true and
\* the unhandledRejection handler starts gracefulShutdown, which ends in
\* process.exit: from then on the process may stop at any step
SendRejects(i) ==
  /\ i \in loops
  /\ inv[i].st \in {"disabledNotice", "ownerNotice", "failNotice"}
  /\ inv' = [inv EXCEPT ![i].st = "threw", ![i].thrown = "send failed"]
  /\ loops' = loops \ {i}
  /\ shutdown' = TRUE
  /\ UNCHANGED <<rateVars, regVars, commandQueue, isProcessing, enqLog,
                 execLog, writes, crashLast, sm>>

\* an updateOne of trackCrash settles (a failure is logged)
WriteSettles(w, ok) ==
  /\ w \in writes
  /\ writes' = writes \ {w}
  /\ store' = IF ok THEN ApplyWrite(store, w) ELSE store
  /\ UNCHANGED sm
  /\ crashLast' = IF crashLast.called /\ (~ok \/ w.k = "enable")
                  THEN [crashLast EXCEPT !.lost = TRUE] ELSE crashLast
  /\ UNCHANGED <<rateVars, pluginFiles, plugins, loader, loader2, found,
                 commandQueue, isProcessing, inv, loops, enqLog, execLog,
                 shutdown>>

\* time passes
Tick(d) ==
  /\ now + d \in DispClock
  /\ now' = now + d
  /\ UNCHANGED <<cache, rlWindow, rlLast, regVars, dispVars, crashLast, sm>>

(***************************************************************************)
(* PluginManager: enablePlugin, disablePlugin                              *)
(***************************************************************************)
\* enablePlugin(name) for a name the registry has: the descriptor is
\* changed at once, the updateOne is sent
EnablePlugin(name) ==
  /\ MapHas(plugins, name)
  /\ Cardinality(writes) < MaxInFlight
  /\ plugins' = MapSet(plugins, [MapGet(plugins, name) EXCEPT
                                   !.enabled = TRUE, !.crashes = 0])
  /\ writes' = writes \cup {[k |-> "enable", name |-> name, crashes |-> 0,
                             lastCrash |-> Null, by |-> 0]}
  /\ UNCHANGED sm
  /\ crashLast' = NoCrash
  /\ UNCHANGED <<rateVars, pluginFiles, store, loader, loader2, found, commandQueue,
                 isProcessing, inv, loops, enqLog, execLog, shutdown>>

\* disablePlugin(name) for a name the registry has
DisablePlugin(name) ==
  /\ MapHas(plugins, name)
  /\ Cardinality(writes) < MaxInFlight
  /\ plugins' = MapSet(plugins, [MapGet(plugins, name) EXCEPT
                                   !.enabled = FALSE])
  /\ writes' = writes \cup {[k |-> "disable", name |-> name, crashes |-> 0,
                             lastCrash |-> Null, by |-> 0]}
  /\ UNCHANGED sm
  /\ crashLast' = NoCrash
  /\ UNCHANGED <<rateVars, pluginFiles, store, loader, loader2, found, commandQueue,
                 isProcessing, inv, loops, enqLog, execLog, shutdown>>

\* trackCrash(pluginName) is called for a command of the registry
CrashTrack(name) ==
  /\ MapHas(plugins, name)
  /\ MapGet(plugins, name).crashes < MaxCrashCount
  /\ Cardinality(writes) + 2 <= MaxInFlight
  /\ LET tc == TrackCrash(plugins, name, now, 0)
     IN /\ plugins' = tc.plugins
        /\ writes' = writes \cup tc.writes
        /\ UNCHANGED sm
        /\ crashLast' = [called |-> TRUE, at |-> now,
                         before |-> MapGet(plugins, name),
                         after |-> MapGet(tc.plugins, name),
                         chain |-> IF crashLast.called
                                      /\ crashLast.after.name = name
                                   THEN crashLast.chain + 1 ELSE 1,
                         lost |-> crashLast.lost]
  /\ UNCHANGED <<rateVars, pluginFiles, store, loader, loader2, found, commandQueue,
                 isProcessing, inv, loops, enqLog, execLog, shutdown>>

\* time passes in the crash-tracking specification
CrashTick(d) ==
  /\ (now - 1) \div (CRASH_WINDOW \div 2) < MaxCrashTicks
  /\ now' = now + d
  /\ UNCHANGED <<cache, rlWindow, rlLast, regVars, dispVars, crashLast, sm>>

(***************************************************************************)
(* SocketManager: connect, its listeners, reconnection                     *)
(***************************************************************************)
MAX_RETRIES == 8
\* the sockets makeWASocket returns in one run, and the handleReconnect
\* calls that wait for their delay at one time
MaxSockets == 3
MaxSleeping == 2

\* the events connect() sets listeners up for
SockEvents == {"connection.update", "creds.update", "messages.upsert"}

\* new SocketManager(...).  sock: the number of the socket, 0 for null;
\* listeners: the Map, as pairs <<event, listener>>, a listener being named
\* by the socket it was made for.  Around the fields: made counts the
\* sockets makeWASocket has returned; attached holds <<socket, event,
\* listener>> for every listener the emitter of a socket has; sleeping
\* counts the handleReconnect calls that wait for their delay; exited:
\* process.exit was called; started: initializeBot has called connect().
\* History: handled is the number of handleMessage calls the last
\* messages.upsert event led to
SocketManagerNew ==
  [sock |-> 0, retryCount |-> 0, isConnecting |-> FALSE, listeners |-> {},
   made |-> 0, attached |-> {}, sleeping |-> 0, exited |-> FALSE,
   started |-> FALSE, handled |-> 0]

\* removeAllListeners(): this.sock.ev.off(event, listener) for every entry
\* of this.listeners, on the socket this.sock is at the time of the call
RemoveAllListeners(s) ==
  IF s.sock = 0 THEN s
  ELSE [s EXCEPT !.attached = @ \ {<<s.sock, p[1], p[2]>> : p \in s.listeners},
                 !.listeners = {}]

\* setupConnectionListener, setupCredentialsListener, setupMessageListener:
\* this.sock.ev.on(event, listener); this.listeners.set(event, listener)
SetupListeners(s) ==
  [s EXCEPT !.attached = @ \cup {<<s.sock, e, s.sock>> : e \in SockEvents},
            !.listeners = {<<e, s.sock>> : e \in SockEvents}]

\* handleReconnect(), up to its delay
HandleReconnect(s) ==
  IF s.retryCount >= MAX_RETRIES THEN [s EXCEPT !.exited = TRUE]
  ELSE [s EXCEPT !.retryCount = @ + 1, !.sleeping = @ + 1]

\* connect(), up to its first await
ConnectCall(s) ==
  IF s.isConnecting THEN s ELSE [s EXCEPT !.isConnecting = TRUE]

\* initializeBot: await state.socketManager.connect()
Connect ==
  /\ ~sm.exited
  /\ ~sm.started
  /\ sm' = ConnectCall([sm EXCEPT !.started = TRUE])
  /\ UNCHANGED <<rateVars, regVars, dispVars, crashLast>>

\* the awaits of connect() settle.  ok: this.sock = makeWASocket(...),
\* removeAllListeners(), the three setups, isConnecting = false; otherwise
\* the catch block: isConnecting = false, handleReconnect()
ConnectSettles(ok) ==
  /\ ~sm.exited
  /\ sm.isConnecting
  /\ IF ok
     THEN /\ sm.made < MaxSockets
          /\ sm' = [SetupListeners(RemoveAllListeners(
                      [sm EXCEPT !.made = @ + 1, !.sock = sm.made + 1]))
                    EXCEPT !.isConnecting = FALSE]
     ELSE /\ sm.sleeping < MaxSleeping
          /\ sm' = HandleReconnect([sm EXCEPT !.isConnecting = FALSE])
  /\ UNCHANGED <<rateVars, regVars, dispVars, crashLast>>

\* the socket in use emits connection.update and a listener of it runs:
\* 'open' resets retryCount, 'close' reconnects unless the reason is
\* loggedOut, which ends the process
ConnectionUpdate(l, what) ==
  /\ ~sm.exited
  /\ <<sm.sock, "connection.update", l>> \in sm.attached
  /\ what = "close" => sm.sleeping < MaxSleeping
  /\ sm' = CASE what = "open" -> [sm EXCEPT !.retryCount = 0]
             [] what = "close" -> HandleReconnect(sm)
             [] OTHER -> [sm EXCEPT !.exited = TRUE]
  /\ UNCHANGED <<rateVars, regVars, dispVars, crashLast>>

\* the delay of a handleReconnect call is over: await this.connect()
ReconnectTimer ==
  /\ ~sm.exited
  /\ sm.sleeping > 0
  /\ sm' = ConnectCall([sm EXCEPT !.sleeping = @ - 1])
  /\ UNCHANGED <<rateVars, regVars, dispVars, crashLast>>

\* the socket in use emits messages.upsert with one command message: every
\* listener its emitter has for the event calls handleMessage once
MessagesUpsert ==
  /\ ~sm.exited
  /\ sm.sock # 0
  /\ sm' = [sm EXCEPT !.handled =
              Cardinality({p \in sm.attached :
                             p[1] = sm.sock /\ p[2] = "messages.upsert"})]
  /\ UNCHANGED <<rateVars, regVars, dispVars, crashLast>>

\* gracefulShutdown: disconnect() removes the listeners and ends the
\* socket; process.exit follows
Disconnect ==
  /\ ~sm.exited
  /\ sm.sock # 0
  /\ sm' = [RemoveAllListeners(sm) EXCEPT !.sock = 0, !.exited = TRUE]
  /\ UNCHANGED <<rateVars, regVars, dispVars, crashLast>>

(***************************************************************************)
(* SpecRate: the rate limiter alone, under a clock                         *)
(***************************************************************************)
\* clock steps: two short steps make exactly WINDOW_MS, a short and a long
\* one make WINDOW_MS + 1
RateSteps == {WINDOW_MS \div 2, WINDOW_MS \div 2 + 1}

\* history: the window of an identity is open from its first request until
\* WINDOW_MS have passed without an accepted request
NoWindow == [open |-> FALSE, calls |-> 0, until |-> 0]
WindowOpen(w, n) == w.open /\ n <= w.until

InitRateVars ==
  /\ now = 1
  /\ cache = [k \in RateKeys |-> NoEntry]
  /\ rlWindow = [id \in Identities |-> NoWindow]
  /\ rlLast = [id |-> <<>>, ok |-> TRUE, n |-> 0, fresh |-> FALSE,
               before |-> 0, total |-> 0]

RateCall(id) ==
  LET r == CheckLimit(cache, id, now)
      w == rlWindow[id]
      isOpen == WindowOpen(w, now)
      n == IF isOpen THEN w.calls + 1 ELSE 1
  IN /\ rlLast.total < MaxRateCalls
     /\ cache' = r.cache
     /\ rlWindow' = [rlWindow EXCEPT ![id] =
           [open |-> TRUE, calls |-> n,
            until |-> IF r.ok THEN now + WINDOW_MS
                      ELSE IF isOpen THEN w.until ELSE now]]
     /\ rlLast' = [id |-> id, ok |-> r.ok, n |-> n,
                   fresh |-> w.open /\ ~isOpen, before |-> w.calls,
                   total |-> rlLast.total + 1]
     /\ UNCHANGED now
     /\ UNCHANGED <<regVars, dispVars, crashLast, sm>>

RateTick(d) ==
  /\ now + d <= MaxRateNow
  /\ now' = now + d
  /\ UNCHANGED <<cache, rlWindow, rlLast>>
  /\ UNCHANGED <<regVars, dispVars, crashLast, sm>>

vars == <<now, cache, rlWindow, rlLast, pluginFiles, plugins, store, loader,
          loader2, found, commandQueue, isProcessing, inv, loops, enqLog, execLog,
          writes, shutdown, crashLast, sm>>

InitRegIdle ==
  /\ pluginFiles = <<>>
  /\ plugins = <<>>
  /\ store = EmptyStore
  /\ loader = LoaderIdle
  /\ loader2 = LoaderIdle
  /\ found = NoFound

InitDispIdle ==
  /\ commandQueue = <<>>
  /\ isProcessing = FALSE
  /\ inv = <<>>
  /\ loops = {}
  /\ enqLog = <<>>
  /\ execLog = <<>>
  /\ writes = {}
  /\ shutdown = FALSE
  /\ crashLast = NoCrash
  /\ sm = SocketManagerNew

InitRate == InitRateVars /\ InitRegIdle /\ InitDispIdle
NextRate ==
  \/ \E id \in Identities : RateCall(id)
  \/ \E d \in RateSteps : RateTick(d)
SpecRate == InitRate /\ [][NextRate]_vars

\* C6: with MAX_REQUESTS = 10, the first 10 checkLimit calls of an identity
\* inside one window return true and every later call inside it (the 11th)
\* returns false; the first call after the window has elapsed returns true.
C6_RateLimitBoundary ==
  rlLast.total > 0 =>
    /\ (rlLast.n <= MAX_REQUESTS) = rlLast.ok
    /\ (rlLast.fresh => rlLast.ok /\ rlLast.n = 1)

\* the first call after an exhausted window has elapsed was accepted
C6_Witness ==
  /\ rlLast.fresh /\ rlLast.ok
  /\ rlLast.before = MAX_REQUESTS + 1

(***************************************************************************)
(* SpecLoad: loading, reloading and resolving, on any content of the       *)
(* plugins directory                                                       *)
(***************************************************************************)
\* number of files in PLUGINS_DIR
MaxFiles == 2

RECURSIVE SeqsOver(_, _)
SeqsOver(S, n) ==
  IF n = 0 THEN {<<>>}
  ELSE LET shorter == SeqsOver(S, n - 1)
       IN shorter \cup
          {Append(q, f) : q \in shorter, f \in S} 
\* the files a plugins directory is made of: every kind of artifact, the
\* owner command left out (it loads like ping.js)
LoadFiles == FileNames \ {"owner.js"}
Directories ==
  {q \in SeqsOver(LoadFiles, MaxFiles) :
     \A i, j \in 1..Len(q) : i # j => q[i] # q[j]}

InitLoad ==
  /\ InitRateVars
  /\ InitDispIdle
  /\ pluginFiles \in Directories
  /\ plugins = <<>>
  /\ store = EmptyStore
  /\ loader = [LoaderIdle EXCEPT !.pc = "boot"]
  /\ loader2 = LoaderIdle
  /\ found = NoFound

NextLoad ==
  \/ StartLoadPlugins
  \/ ReloadPlugins
  \/ \E name \in PluginNames : ReloadPlugin(name)
  \/ LoadStep
  \/ SyncStart
  \/ \E ok \in BOOLEAN : SyncFind(ok)
  \/ \E ok \in BOOLEAN : SyncEach(ok)
  \/ \E ok \in BOOLEAN : SyncOrphan(ok)
  \/ \E files \in Directories : Restart(files)
  \/ SyncAgain
  \/ \E token \in Tokens : Resolve(token)
SpecLoad == InitLoad /\ [][NextLoad]_vars

\* C13: when syncPluginsToDatabase has ended without an error, every
\* loaded descriptor whose name had a record when the sync read the
\* collection has the enabled value of that record; a freshly loaded
\* descriptor whose record has enabled = false is disabled.
C13_SyncPullsEnabled ==
  loader.last = "ok" =>
    \A i \in 1..Len(plugins) :
      loader.snap[plugins[i].name].exists =>
        plugins[i].enabled = loader.snap[plugins[i].name].enabled

\* a sync has ended well with a descriptor, loaded as enabled, whose record
\* had enabled = false
C13_Witness ==
  /\ loader.last = "ok"
  /\ \E i \in 1..Len(plugins) :
       /\ loader.snap[plugins[i].name].exists
       /\ ~loader.snap[plugins[i].name].enabled
       /\ ~plugins[i].enabled

\* C15: when syncPluginsToDatabase has ended without an error, every
\* record whose name is not among the loaded descriptors has
\* orphaned = true and enabled = false; and no step ever removes a record.
C15_OrphansMarkedNeverDeleted ==
  /\ [](loader.last = "ok" =>
          \A n \in PluginNames :
            store[n].exists /\ ~MapHas(plugins, n) =>
              store[n].orphaned /\ ~store[n].enabled)
  /\ [][\A n \in PluginNames : store[n].exists => store'[n].exists]_vars

\* a sync has ended well and left the record of a command, whose file is
\* gone, marked as orphaned
C15_Witness ==
  /\ loader.last = "ok"
  /\ \E n \in PluginNames :
       /\ store[n].exists /\ ~MapHas(plugins, n)
       /\ store[n].orphaned /\ ~store[n].enabled

(***************************************************************************)
(* Spec: the dispatcher, on the registry loaded at startup                 *)
(***************************************************************************)
\* the plugins directory of this specification
DispFiles == <<"ping.js", "owner.js">>

RECURSIVE LoadAll(_, _)
LoadAll(m, files) ==
  IF files = <<>> THEN m ELSE LoadAll(LoadPlugin(m, Head(files)), Tail(files))

\* the store after the sync of startup; the records of the names in off
\* were disabled by an earlier run
SyncedStore(m, off) ==
  [n \in PluginNames |->
     IF MapHas(m, n)
     THEN [PluginDoc(MapGet(m, n), NoRecord) EXCEPT !.enabled = n \notin off]
     ELSE NoRecord]
SyncedPlugins(m, st) ==
  [i \in 1..Len(m) |-> [m[i] EXCEPT !.enabled = st[m[i].name].enabled]]

\* the inbound messages
Inbound ==
  {Message(TRUE, FALSE, TextPing, <<>>, JidOwner),
   Message(TRUE, FALSE, <<>>, TextAlias, JidOther),
   Message(TRUE, FALSE, TextOwner, <<>>, JidOther),
   Message(TRUE, FALSE, TextNope, <<>>, JidOther),
   Message(TRUE, FALSE, TextPlain, <<>>, JidOther),
   Message(TRUE, TRUE, TextPing, <<>>, JidOther),
   Message(FALSE, FALSE, <<>>, <<>>, JidOther)}

\* a rate window that earlier commands, all of them unknown and so without
\* any trace but their count, have filled up to one below the limit
NearLimit == [v |-> MAX_REQUESTS - 1, t |-> 1 + StdTTL * 1000]

Init ==
  /\ now = 1
  /\ \E e \in {NoEntry, NearLimit} :
       cache = [k \in RateKeys |-> IF k = RateKey(JidOther) THEN e ELSE NoEntry]
  /\ rlWindow = [id \in Identities |-> NoWindow]
  /\ rlLast = [id |-> <<>>, ok |-> TRUE, n |-> 0, fresh |-> FALSE,
               before |-> 0, total |-> 0]
  /\ pluginFiles = DispFiles
  /\ \E off \in SUBSET {"ping"} :
       /\ store = SyncedStore(LoadAll(<<>>, DispFiles), off)
       /\ plugins = SyncedPlugins(LoadAll(<<>>, DispFiles), store)
  /\ loader = LoaderIdle
  /\ loader2 = LoaderIdle
  /\ found = NoFound
  /\ InitDispIdle

Next ==
  \/ \E msg \in Inbound : HandleMessage(msg)
  \/ \E i \in 1..MaxMsgs, ok \in BOOLEAN : TooFastSettles(i, ok)
  \/ \E i \in 1..MaxMsgs : HandlerResolves(i)
  \/ \E i \in 1..MaxMsgs : HandlerRejects(i)
  \/ \E i \in 1..MaxMsgs : TimeoutFires(i)
  \/ \E i \in 1..MaxMsgs, how \in {"resolved", "rejected"} : LateSettle(i, how)
  \/ \E i \in 1..MaxMsgs, ok \in BOOLEAN : StatsSettles(i, ok)
  \/ \E i \in 1..MaxMsgs : SendResolves(i)
  \/ \E i \in 1..MaxMsgs : SendRejects(i)
  \/ \E w \in writes, ok \in BOOLEAN : WriteSettles(w, ok)
  \/ \E d \in DispSteps : Tick(d)
Spec == Init /\ [][Next]_vars


(***************************************************************************)
(* SpecCrash: crash tracking and the enable / disable operations, under a  *)
(* clock                                                                   *)
(***************************************************************************)
CrashSteps == {CRASH_WINDOW \div 2, CRASH_WINDOW \div 2 + 1}
\* the plugins directory of this specification
CrashFiles == <<"ping.js">>

InitCrash ==
  /\ InitRateVars
  /\ pluginFiles = CrashFiles
  /\ store = SyncedStore(LoadAll(<<>>, CrashFiles), {})
  /\ plugins = SyncedPlugins(LoadAll(<<>>, CrashFiles), store)
  /\ loader = LoaderIdle
  /\ loader2 = LoaderIdle
  /\ found = NoFound
  /\ InitDispIdle

NextCrash ==
  \/ \E name \in PluginNames : CrashTrack(name)
  \/ \E name \in PluginNames : EnablePlugin(name)
  \/ \E name \in PluginNames : DisablePlugin(name)
  \/ \E w \in writes, ok \in BOOLEAN : WriteSettles(w, ok)
  \/ \E d \in CrashSteps : CrashTick(d)
SpecCrash == InitCrash /\ [][NextCrash]_vars

\* C10: a trackCrash call for a command whose last crash is more than
\* CRASH_WINDOW in the past leaves the crash count at 1 and the enabled
\* flag as it was; any other call increases the count by exactly 1.
C10_CrashWindowReset ==
  crashLast.called =>
    IF crashLast.before.lastCrash # Null
       /\ crashLast.at - crashLast.before.lastCrash > CRASH_WINDOW
    THEN /\ crashLast.after.crashes = 1
         /\ crashLast.after.enabled = crashLast.before.enabled
    ELSE crashLast.after.crashes = crashLast.before.crashes + 1

\* two crashes, a gap that exceeds the window, one more crash: the count
\* is 1 and the command is enabled
C10_Witness ==
  /\ crashLast.called
  /\ crashLast.before.crashes = 2
  /\ crashLast.before.enabled
  /\ crashLast.at - crashLast.before.lastCrash > CRASH_WINDOW
  /\ crashLast.after.crashes = 1
  /\ crashLast.after.enabled

(***************************************************************************)
(* SpecLife: reloads and their sync, while commands crash and are enabled  *)
(* and disabled                                                            *)
(***************************************************************************)
\* PLUGINS_DIR when the process started, and after menu.js was replaced by
\* a newer version of the same command
StartFiles == <<"menu.js", "ping.js">>
EditedFiles == <<"list.js", "ping.js">>
\* the command that crashes and is switched on and off
LifeNames == {"menu"}

InitLife ==
  /\ InitRateVars
  /\ pluginFiles \in {StartFiles, EditedFiles}
  /\ store = SyncedStore(LoadAll(<<>>, StartFiles), {})
  /\ plugins = SyncedPlugins(LoadAll(<<>>, StartFiles), store)
  /\ loader = LoaderIdle
  /\ loader2 = LoaderIdle
  /\ found = NoFound
  /\ InitDispIdle

NextLife ==
  \/ ReloadPlugins
  \/ \E name \in PluginNames : ReloadPlugin(name)
  \/ LoadStep
  \/ SyncStart
  \/ \E ok \in BOOLEAN : SyncFind(ok)
  \/ \E ok \in BOOLEAN : SyncEach(ok)
  \/ \E ok \in BOOLEAN : SyncOrphan(ok)
  \/ \E name \in LifeNames : CrashTrack(name)
  \/ \E name \in LifeNames : EnablePlugin(name)
  \/ \E name \in LifeNames : DisablePlugin(name)
  \/ \E w \in writes, ok \in BOOLEAN : WriteSettles(w, ok)
SpecLife == InitLife /\ [][NextLife]_vars

\* C12: a command the crash tracker has disabled stays disabled in memory
\* until enablePlugin is called for it: no further crash, no sync and no
\* reload of another plugin sets enabled back to true.
C12_StaysDisabledUntilEnable ==
  crashLast.called /\ crashLast.after.crashes >= MAX_CRASHES
    /\ MapHas(plugins, crashLast.after.name) =>
      ~MapGet(plugins, crashLast.after.name).enabled

\* C14: no step of a reload (reloadPlugins or reloadPlugin, with the sync
\* it runs) changes the persisted enabled value of a record that exists
\* and whose descriptor is loaded; a reload writes enabled only when it
\* inserts a record.
C14_ReloadKeepsPersistedEnabled ==
  [][loader' # loader =>
       \A n \in PluginNames :
         store[n].exists /\ MapHas(plugins', n) =>
           store'[n].enabled = store[n].enabled]_vars

C1_FifoExecutionOrder ==
  /\ Len(execLog) <= Len(enqLog)
  /\ execLog = SubSeq(enqLog, 1, Len(execLog))

\* three invocations of two senders were started in their queue order, the
\* first one ran into the timeout, the second one resolved at once
C1_Witness ==
  /\ Len(execLog) = 3
  /\ inv[execLog[1]].outcome = "timedOut"
  /\ inv[execLog[2]].outcome = "resolved"
  /\ inv[execLog[1]].sender # inv[execLog[2]].sender

\* C2: at most one body of processQueue is active, and at most one
\* invocation is inside executeCommand: the next one starts only when the
\* one before has returned or thrown.
C2_SingleFlight ==
  /\ Cardinality(loops) <= 1
  /\ Cardinality({i \in 1..Len(inv) : inv[i].st \in Executing}) <= 1
  /\ \A i \in 1..Len(inv) : inv[i].st \in Executing => loops = {i}

\* handleMessage queued an invocation while the loop was awaiting another
C2_Witness ==
  /\ loops # {}
  /\ commandQueue # <<>>
  /\ \E i \in loops : inv[i].st = "running"

\* C3: every queued invocation is taken from the queue and passed to
\* executeCommand, whatever fails: no failure of a handler or of a
\* sendMessage ends the loop of processQueue with invocations left behind
\* or starts the shutdown of the process.
C3_NoFailureStopsDrain ==
  /\ ~shutdown
  /\ commandQueue # <<>> => loops # {}
  /\ \A i \in 1..Len(inv) : inv[i].st # "threw"

\* C4: when the handler throws or the timeout wins the race, trackCrash
\* is called exactly once for the invocation, exactly one failure notice
\* is sent, its text is that of the error, and this error is not the one
\* executeCommand ends with.
C4_FailureCaught ==
  \A i \in 1..Len(inv) :
    inv[i].outcome \in {"threw", "timedOut"} =>
      /\ inv[i].crash = 1
      /\ inv[i].failN = 1
      /\ inv[i].err = (IF inv[i].outcome = "threw" THEN "handler error"
                       ELSE "Plugin timeout")
      /\ inv[i].thrown # inv[i].err
      /\ inv[i].st \in {"failNotice", "done", "threw"}
      /\ inv[i].stats = 0

\* a handler threw, another one timed out, both were handled and
\* executeCommand returned
C4_Witness ==
  \E i, j \in 1..Len(inv) :
    /\ inv[i].outcome = "threw" /\ inv[i].st = "done"
    /\ inv[j].outcome = "timedOut" /\ inv[j].st = "done"

\* C5: a handler that does not settle before the timeout causes exactly
\* one timeout notice, after which executeCommand returns and the loop
\* takes the next queued invocation; a later settling of the handler
\* sends nothing.
C5_TimeoutIsolation ==
  \A i \in 1..Len(inv) :
    inv[i].outcome = "timedOut" =>
      /\ inv[i].failN = 1
      /\ inv[i].err = "Plugin timeout"
      /\ inv[i].st \in {"failNotice", "done"}
      /\ inv[i].st = "done" /\ commandQueue # <<>> => loops # {}

\* C7: a message the rate limiter refuses is never queued and never
\* reaches executeCommand, and exactly one "too fast" notice is sent for it.
C7_RateLimitedNeverQueued ==
  \A i \in 1..Len(inv) :
    inv[i].rate = "limited" =>
      /\ i \notin Range(enqLog)
      /\ i \notin Range(commandQueue)
      /\ i \notin Range(execLog)
      /\ inv[i].exec = 0
      /\ inv[i].run = 0
      /\ inv[i].tooFast = 1
      /\ inv[i].st \in {"limited", "limitedDone"}

\* a message was refused while an earlier one of the same sender was
\* executing, and its notice has been sent
C7_Witness ==
  \E i, j \in 1..Len(inv) :
    /\ inv[i].rate = "limited"
    /\ inv[i].st = "limitedDone"
    /\ inv[j].sender = inv[i].sender
    /\ inv[j].rate = "ok"

(***************************************************************************)
(* SpecOwner: the dispatcher with the owner command and its plugin         *)
(* management                                                              *)
(***************************************************************************)
OwnerIdentities == Identities \cup {JidLong}

OwnerInbound ==
  {Message(TRUE, FALSE, TextOwnerDisable, <<>>, JidOwner),
   Message(TRUE, FALSE, TextOwnerEnable, <<>>, JidOwner),
   Message(TRUE, FALSE, TextOwnerEnableMenu, <<>>, JidOwner),
   Message(TRUE, FALSE, TextPing, <<>>, JidOther),
   Message(TRUE, FALSE, TextOwner, <<>>, JidOther),
   Message(TRUE, FALSE, TextOwner, <<>>, JidLong)}

InitOwner ==
  /\ now = 1
  /\ cache = [k \in {RateKey(id) : id \in OwnerIdentities} |-> NoEntry]
  /\ rlWindow = [id \in Identities |-> NoWindow]
  /\ rlLast = [id |-> <<>>, ok |-> TRUE, n |-> 0, fresh |-> FALSE,
               before |-> 0, total |-> 0]
  /\ pluginFiles = DispFiles
  /\ \E off \in SUBSET {"ping"} :
       /\ store = SyncedStore(LoadAll(<<>>, DispFiles), off)
       /\ plugins = SyncedPlugins(LoadAll(<<>>, DispFiles), store)
  /\ loader = LoaderIdle
  /\ loader2 = LoaderIdle
  /\ found = NoFound
  /\ InitDispIdle

NextOwner ==
  \/ \E msg \in OwnerInbound : HandleMessage(msg)
  \/ \E i \in 1..MaxMsgs : OwnerPluginsApplied(i)
  \/ \E i \in 1..MaxMsgs : HandlerResolves(i)
  \/ \E i \in 1..MaxMsgs : HandlerRejects(i)
  \/ \E i \in 1..MaxMsgs, ok \in BOOLEAN : StatsSettles(i, ok)
  \/ \E i \in 1..MaxMsgs : SendResolves(i)
  \/ \E i \in 1..MaxMsgs : SendRejects(i)
  \/ \E w \in writes, ok \in BOOLEAN : WriteSettles(w, ok)
SpecOwner == InitOwner /\ [][NextOwner]_vars

\* C17: the handler of a descriptor with ownerOnly = true is called only
\* for the configured owner identity; for every other sender exactly one
\* owner-only notice is sent and the handler is not called.
C17_OwnerOnlyGate ==
  \A i \in 1..Len(inv) :
    (inv[i].seen = "enabled" /\ MapGet(plugins, inv[i].plugin).ownerOnly) =>
       IF inv[i].sender = JidOwner
       THEN inv[i].ownerN = 0
       ELSE inv[i].run = 0 /\ inv[i].ownerN = 1

\* C18: when the owner command has disabled (enabled) a plugin by name and
\* has returned, the invocation of that plugin dispatched next does not
\* call (does call) the handler.
C18_AdminToggleObserved ==
  \A k \in 1..(Len(execLog) - 1) :
    LET a == inv[execLog[k]]
        b == inv[execLog[k + 1]]
    IN (a.admin = "applied" /\ a.st = "done" /\ b.plugin = a.args[3]) =>
         IF a.args[2] = "disable"
         THEN b.run = 0 /\ b.disabledN = 1
         ELSE b.run = 1 /\ b.disabledN = 0

\* C19: an enable or disable request that names a plugin the registry does
\* not have is not carried out: it is not answered as done and no record
\* is created for the name.
C19_UnknownNameRejected ==
  /\ \A i \in 1..Len(inv) :
       (AdminToggle(inv[i]) /\ ~MapHas(plugins, inv[i].args[3])) =>
          inv[i].admin # "applied"
  /\ \A n \in PluginNames : store[n].exists => MapHas(plugins, n)

\* C20: every descriptor in the registry has a non-empty name and a
\* callable run; an artifact without them is skipped and never registered.
C20_RegisteredAreValid ==
  \A i \in 1..Len(plugins) : plugins[i].name # "" /\ plugins[i].run

\* C16: an invocation that resolves to a descriptor whose enabled flag is
\* false at that moment never has its handler called; exactly one disabled
\* notice is sent for it, trackCrash is not called and updatePluginStats is
\* not called.
C16_DisabledNotInvoked ==
  \A i \in 1..Len(inv) :
    inv[i].seen = "disabled" =>
      /\ inv[i].run = 0
      /\ inv[i].handler = "none"
      /\ inv[i].disabledN = 1
      /\ inv[i].ownerN = 0
      /\ inv[i].failN = 0
      /\ inv[i].crash = 0
      /\ inv[i].stats = 0
      /\ inv[i].st \in {"disabledNotice", "done", "threw"}

\* a disabled command was called by its alias, the notice was sent and
\* executeCommand returned
C16_Witness ==
  \E j \in 1..Len(inv) :
    /\ inv[j].cmd = "p"
    /\ inv[j].plugin = "ping"
    /\ inv[j].seen = "disabled"
    /\ inv[j].disabledN = 1
    /\ inv[j].st = "done"

\* C8: no two registered descriptors share a name, and no alias of a
\* descriptor equals the name or an alias of another descriptor.
C8_NoNameOrAliasCollision ==
  \A i, j \in 1..Len(plugins) :
    i # j =>
      /\ plugins[i].name # plugins[j].name
      /\ plugins[i].name \notin Range(plugins[j].aliases)
      /\ Range(plugins[i].aliases) \cap Range(plugins[j].aliases) = {}

\* C9: findPlugin(token) returns the descriptor whose name equals the
\* token if there is one, otherwise a descriptor whose aliases contain
\* the token, otherwise null.
C9_FindPluginNameFirst ==
  LET m == plugins
      token == found.token
      byAlias == {k \in 1..Len(m) : token \in Range(m[k].aliases)}
  IN found.asked =>
       IF MapHas(m, token) THEN found.result = token
       ELSE IF byAlias # {} THEN found.result \in {m[k].name : k \in byAlias}
       ELSE found.result = NoPlugin

\* C21: the usage-stat update does not block the dispatcher: while the
\* updateOne of updatePluginStats is pending and a command is queued, the
\* drain loop can start that command before the write has completed.
C21_StatsDoesNotBlock ==
  \A i \in 1..Len(inv) :
    (inv[i].st = "stats" /\ commandQueue # <<>> /\ ~shutdown) =>
      ENABLED (/\ Next
               /\ inv'[i].st = "stats"
               /\ Len(execLog') > Len(execLog))

\* C22: the persisted usage count of a command is the number of its
\* invocations whose handler resolved before the deadline and whose stat
\* update the store applied; an invocation that threw, timed out, met a
\* disabled plugin or was refused as not the owner issues no stat update,
\* also when its handler settles after the timeout.
C22_UsageCountPerSuccess ==
  /\ \A n \in PluginNames :
       store[n].exists =>
         store[n].usageCount =
           Cardinality({i \in 1..Len(inv) :
                          inv[i].plugin = n /\ inv[i].statsWrite = "ok"})
  /\ \A i \in 1..Len(inv) :
       /\ inv[i].stats = (IF inv[i].outcome = "resolved" THEN 1 ELSE 0)
       /\ inv[i].statsWrite # "none" =>
            inv[i].outcome = "resolved" /\ inv[i].st \notin {"running", "stats"}
       /\ (inv[i].outcome = "resolved" /\ inv[i].st = "done") =>
            inv[i].statsWrite # "none"

C22_Witness ==
  \E i, j \in 1..Len(inv) :
    /\ inv[i].plugin = "ping" /\ inv[j].plugin = "ping"
    /\ inv[i].outcome = "resolved" /\ inv[i].statsWrite = "ok"
    /\ inv[j].outcome = "timedOut" /\ inv[j].handler = "resolved"
    /\ inv[j].st = "done"
    /\ store["ping"].usageCount = 1

\* C22 as first stated: the persisted usage count of a command is the
\* number of its invocations whose handler resolved before the deadline.
C22_UsageCountEverySuccess ==
  \A n \in PluginNames :
    store[n].exists =>
      store[n].usageCount =
        Cardinality({i \in 1..Len(inv) :
                       /\ inv[i].plugin = n
                       /\ inv[i].outcome = "resolved"
                       /\ inv[i].st = "done"})

\* C23: when the updateOne of a usage-stat update fails after the handler
\* resolved, the sender gets no notice, trackCrash is not called for the
\* invocation, executeCommand does not throw, and in that same step the
\* drain loop takes the next queued command (or ends, the queue being
\* empty).
C23_StatsFailureSwallowed ==
  /\ [](\A i \in 1..Len(inv) :
          inv[i].statsWrite = "failed" =>
            /\ inv[i].failN = 0 /\ inv[i].disabledN = 0
            /\ inv[i].ownerN = 0 /\ inv[i].tooFast = 0
            /\ inv[i].crash = 0
            /\ inv[i].thrown = ""
            /\ inv[i].st = "done"
            /\ inv[i].outcome = "resolved")
  /\ [][\A i \in 1..Len(inv) :
          (inv[i].st = "stats" /\ inv'[i].statsWrite = "failed") =>
            /\ plugins' = plugins
            /\ IF commandQueue # <<>>
               THEN /\ Len(execLog') > Len(execLog)
                    /\ execLog'[Len(execLog) + 1] = Head(commandQueue)
               ELSE ~isProcessing' /\ loops' = {}]_vars

C23_Witness ==
  /\ Len(execLog) >= 2
  /\ inv[execLog[1]].statsWrite = "failed"
  /\ inv[execLog[2]].outcome = "resolved"
  /\ inv[execLog[2]].statsWrite = "ok"
  /\ enqLog = execLog

\* C24: a message ".ping" that is not from the bot itself and is not
\* rate-limited resolves to the ping descriptor and its handler runs; when
\* the handler has resolved and the stat update is applied, the sender has
\* received exactly one reply and the usage count of ping has risen by 1.
C24_PingExample ==
  \A i \in 1..Len(inv) :
    (inv[i].cmd = "ping" /\ inv[i].rate = "ok" /\ inv[i].exec = 1) =>
      /\ inv[i].plugin = "ping"
      /\ inv[i].seen = "enabled" => inv[i].run = 1
      /\ (inv[i].outcome = "resolved" /\ inv[i].statsWrite = "ok") =>
           /\ inv[i].replies = 1
           /\ store["ping"].usageCount >= 1

\* what a message that handleMessage dropped has left behind: nothing
Untouched(i) ==
  /\ inv[i].st = "dropped"
  /\ inv[i].rate = "none"
  /\ i \notin Range(commandQueue)
  /\ i \notin Range(enqLog)
  /\ i \notin Range(execLog)
  /\ i \notin loops
  /\ inv[i].exec = 0 /\ inv[i].run = 0 /\ inv[i].handler = "none"
  /\ inv[i].tooFast = 0 /\ inv[i].disabledN = 0 /\ inv[i].ownerN = 0
  /\ inv[i].failN = 0 /\ inv[i].replies = 0
  /\ inv[i].crash = 0 /\ inv[i].stats = 0

\* the step that takes in a message changes nothing but the record of the
\* message itself
DropFrame ==
  /\ cache' = cache
  /\ plugins' = plugins
  /\ store' = store
  /\ writes' = writes
  /\ crashLast' = crashLast
  /\ commandQueue' = commandQueue
  /\ isProcessing' = isProcessing
  /\ loops' = loops
  /\ enqLog' = enqLog
  /\ execLog' = execLog
  /\ SubSeq(inv', 1, Len(inv)) = inv

\* C25: a message with a payload, not from the bot itself, whose extracted
\* text does not start with the prefix is dropped: it is never queued, never
\* answered, and the step that takes it in leaves the rate limiter, the
\* registry, the store and the crash state as they were.
C25_NoPrefixDropped ==
  /\ [](\A i \in 1..Len(inv) :
          (inv[i].payload /\ ~inv[i].fromMe
             /\ ~StartsWith(inv[i].text, Prefix)) => Untouched(i))
  /\ [][(/\ Len(inv') = Len(inv) + 1
         /\ inv'[Len(inv')].payload
         /\ ~inv'[Len(inv')].fromMe
         /\ ~StartsWith(inv'[Len(inv')].text, Prefix)) => DropFrame]_vars

C25_Witness ==
  \E i, j \in 1..Len(inv) :
    /\ i < j
    /\ inv[i].text = TextPlain /\ inv[i].payload /\ ~inv[i].fromMe
    /\ inv[i].st = "dropped"
    /\ inv[j].st = "done" /\ inv[j].outcome = "resolved"

\* C26: a message from the bot's own identity, or one without a content
\* payload, is never queued, never reaches a handler and is never
\* answered, whatever its text; the step that takes it in changes nothing
\* else.
C26_SelfAndEmptyIgnored ==
  /\ [](\A i \in 1..Len(inv) :
          (inv[i].fromMe \/ ~inv[i].payload) => Untouched(i))
  /\ [][(/\ Len(inv') = Len(inv) + 1
         /\ (inv'[Len(inv')].fromMe \/ ~inv'[Len(inv')].payload))
          => DropFrame]_vars

C26_Witness ==
  \E i, j \in 1..Len(inv) :
    /\ inv[i].fromMe /\ inv[i].payload /\ inv[i].text = TextPing
    /\ inv[i].st = "dropped"
    /\ ~inv[j].payload /\ inv[j].st = "dropped"

\* C27: while reloadPlugins is loading, a findPlugin call for a token that
\* resolved before the reload and resolves after it never finds the
\* registry empty or partly filled: the token is resolved.
C27_ReloadAtomic ==
  (/\ found.asked
   /\ loader.kind = "reloadPlugins"
   /\ loader.pc = "loading"
   /\ found.token \in loader.had
   /\ FindPlugin(LoadAll(<<>>, pluginFiles), found.token) # NoPlugin)
    => found.result # NoPlugin

(***************************************************************************)
(* SpecReload: reloads that are called while a reload is running           *)
(***************************************************************************)
NextReload ==
  \/ ReloadPlugins
  \/ \E name \in PluginNames : ReloadPlugin(name)
  \/ LoadStep
  \/ SyncStart
  \/ \E ok \in BOOLEAN : SyncFind(ok)
  \/ \E ok \in BOOLEAN : SyncEach(ok)
  \/ \E ok \in BOOLEAN : SyncOrphan(ok)
  \/ ReloadPluginsDuring
  \/ \E name \in PluginNames : ReloadPluginDuring(name)
  \/ LoadStepDuring
  \/ SyncStartDuring
  \/ \E ok \in BOOLEAN : SyncFindDuring(ok)
  \/ \E ok \in BOOLEAN : SyncEachDuring(ok)
  \/ \E ok \in BOOLEAN : SyncOrphanDuring(ok)
SpecReload == InitLife /\ [][NextReload]_vars

\* C28: two reloads (reloadPlugins or reloadPlugin) are never in progress
\* at the same time.
C28_OneReloadAtATime == loader.pc = "idle" \/ loader2.pc = "idle"

\* C29: every step of reloadPlugin(name), from its call to the end of its
\* sync, leaves every descriptor other than the one of that name in the
\* registry and as it was (enabled flag, crash count, last-crash time).
C29_ReloadPluginFrame ==
  [][(loader' # loader
        /\ (loader.kind = "reloadPlugin" \/ loader'.kind = "reloadPlugin"))
      => LET t == IF loader'.kind = "reloadPlugin" THEN loader'.name
                  ELSE loader.name
         IN \A i \in 1..Len(plugins) :
              plugins[i].name # t =>
                /\ MapHas(plugins', plugins[i].name)
                /\ MapGet(plugins', plugins[i].name) = plugins[i]]_vars

\* C30: when a store operation of syncPluginsToDatabase has failed, the
\* load has ended without raising, the failing step has left the registry
\* as it was, the registry holds every descriptor the directory loads, and
\* findPlugin resolves their commands.
C30_SyncFailureTolerated ==
  /\ [](loader.last = "failed" =>
          /\ loader.pc = "idle"
          /\ MapKeys(plugins) = MapKeys(LoadAll(<<>>, pluginFiles))
          /\ (found.asked
                /\ FindPlugin(LoadAll(<<>>, pluginFiles), found.token)
                     # NoPlugin)
               => found.result # NoPlugin)
  /\ [][(loader'.last = "failed" /\ loader.last # "failed")
          => plugins' = plugins]_vars

C30_Witness ==
  /\ loader.last = "failed"
  /\ loader.pc = "idle"
  /\ Len(plugins) = MaxFiles
  /\ found.asked
  /\ found.result # NoPlugin

\* C31: the expiry of a rate window is fixed when its first request creates
\* it: a checkLimit call made while the entry of the identity is alive
\* leaves the expiry of the entry as it was.
C31_FixedWindow ==
  [][\A id \in Identities :
       LET key == RateKey(id)
       IN (cache[key] # NoEntry /\ ~CacheExpired(cache, key, now)
             /\ cache'[key] # NoEntry)
            => cache'[key].t = cache[key].t]_vars

\* C32: the stored request count of every identity is between 0 and
\* MAX_REQUESTS; a checkLimit call that returns false leaves the entry of
\* the identity (count and expiry) unchanged, and a call that returns true
\* raises the count of the identity by exactly 1.
C32_CountBounded ==
  /\ [](\A key \in RateKeys :
          cache[key].v >= 0 /\ cache[key].v <= MAX_REQUESTS)
  /\ [][rlLast'.total = rlLast.total + 1 =>
          LET key == RateKey(rlLast'.id)
          IN IF rlLast'.ok
             THEN CacheGetOrZero(cache', key, now)
                    = CacheGetOrZero(cache, key, now) + 1
             ELSE cache'[key] = cache[key]]_vars

C32_Witness ==
  /\ rlLast.total > 0
  /\ ~rlLast.ok
  /\ cache[RateKey(rlLast.id)].v = MAX_REQUESTS
  /\ \E id \in Identities :
       id # rlLast.id /\ cache[RateKey(id)].v \in 1..(MAX_REQUESTS - 1)

\* C33: at most one call of plugin.run is in flight at any time, the calls
\* whose timeout has fired but which have not settled included.
C33_OneHandlerInFlight ==
  Cardinality({i \in 1..Len(inv) : inv[i].handler = "pending"}) <= 1

\* C34: when reloadPlugin(name) returns for a name the registry had,
\* whether the artifact could be imported again or not, the registry has
\* a descriptor of that name and the record of the name is not marked
\* orphaned.
C34_ReloadPluginKeepsDescriptor ==
  [][(loader.kind = "reloadPlugin" /\ loader.pc # "idle"
        /\ loader'.pc = "idle") =>
       /\ MapHas(plugins', loader.name)
       /\ ~store'[loader.name].orphaned]_vars

\* C35: at every suspension point isProcessing is true exactly when a loop
\* of processQueue is running, and the queue is non-empty only while one
\* is running: the flag never stays true after the loop has ended,
\* normally or by an error.
C35_ProcessingFlag ==
  /\ isProcessing <=> loops # {}
  /\ commandQueue # <<>> => loops # {}

\* C36: a descriptor that is enabled in memory has a crash count below
\* MAX_CRASHES, whatever crashes, enablePlugin and disablePlugin calls,
\* syncs and reloads have happened.
C36_EnabledBelowMaxCrashes ==
  \A i \in 1..Len(plugins) :
    plugins[i].enabled => plugins[i].crashes < MAX_CRASHES

\* C37: when syncPluginsToDatabase has ended without an error, a record
\* has orphaned = true exactly when no loaded descriptor has its name: a
\* record once marked orphaned, whose plugin is loaded again, is no longer
\* marked after the next sync.
C37_OrphanedIffNotLoaded ==
  loader.last = "ok" =>
    \A n \in PluginNames :
      store[n].exists => (store[n].orphaned <=> ~MapHas(plugins, n))

\* C38: a sync that runs while a command is disabled never undoes the
\* disabling: once the sync has ended and the store writes have been
\* applied, the command is disabled in memory and in the store.  Stated
\* for the disabling by trackCrash, with no enablePlugin call and no lost
\* write since.
C38_SyncKeepsDisable ==
  (/\ crashLast.called
   /\ crashLast.after.crashes >= MAX_CRASHES
   /\ ~crashLast.lost
   /\ loader.pc = "idle"
   /\ writes = {}
   /\ MapHas(plugins, crashLast.after.name)) =>
     /\ ~MapGet(plugins, crashLast.after.name).enabled
     /\ ~store[crashLast.after.name].enabled

(***************************************************************************)
(* SpecSock: the SocketManager through connects and reconnects             *)
(***************************************************************************)
InitSock == InitRateVars /\ InitRegIdle /\ InitDispIdle

NextSock ==
  \/ Connect
  \/ \E ok \in BOOLEAN : ConnectSettles(ok)
  \/ \E l \in 1..MaxSockets, what \in {"open", "close", "loggedOut"} :
       ConnectionUpdate(l, what)
  \/ ReconnectTimer
  \/ MessagesUpsert
  \/ Disconnect
SpecSock == InitSock /\ [][NextSock]_vars

\* C39: after any number of connects and reconnects at most one
\* messages.upsert listener is attached over all the sockets made so far,
\* and an inbound message leads to at most one handleMessage call.
C39_OneMessageListener ==
  /\ Cardinality({p \in sm.attached : p[2] = "messages.upsert"}) <= 1
  /\ sm.handled <= 1

\* C40: syncPluginsToDatabase run a second time, on the registry and the
\* collection as a sync that ended well left them, adds no record and
\* updates none, counts every loaded descriptor as unchanged, and leaves
\* every record and every enabled flag of the registry as they were.
C40_SyncIdempotent ==
  [][(/\ loader.pc = "idle"
      /\ loader.last = "ok"
      /\ loader'.pc = "idle"
      /\ loader'.again) =>
       /\ loader'.counts = <<0, 0, Len(plugins)>>
       /\ store' = store
       /\ plugins' = plugins]_vars

\* a second sync has run on two loaded commands, one of them disabled by
\* its record, and a record that is marked orphaned
C40_Witness ==
  /\ loader.again
  /\ loader.counts = <<0, 0, 2>>
  /\ \E i \in 1..Len(plugins) : ~plugins[i].enabled
  /\ \E n \in PluginNames :
       store[n].exists /\ store[n].orphaned /\ ~MapHas(plugins, n)

====
